---- MODULE Spec2Model ----
(***************************************************************************)
(* A model of the pagination-and-retry engine of the hetzner client:       *)
(*   - paginate / fetchAllPages        (src/src/pagination.ts)             *)
(*   - calculateBackoff                (src/src/utils.ts)                  *)
(*   - ActionsApi.poll                 (src/src/resources/actions.ts)      *)
(*                                                                         *)
(* paginate is an async generator.  Its body runs atomically between two   *)
(* suspension points (await client.get, yield, await delay), so every      *)
(* action below is one such run of the body, started by the event that     *)
(* resumes it: a pull of the consumer, the settlement of the page fetch,   *)
(* or the expiry of the backoff timer.                                     *)
(***************************************************************************)
EXTENDS Integers, Sequences, FiniteSets, TLC

----------------------------------------------------------------------------
(* Bounds of the model *)

MaxPages == 2
MaxItems == 2
MaxFetches == 6
MaxRetryAfter == 1
MaxDelay == 10
MaxAttempt == 5
MaxInterval == 2
MaxTimeout == 3
MaxFetchTime == 1
MaxJitter == 1
MaxPollFetches == 5
MaxHeaderLen == 2
MaxParams == 2
MaxEndPulls == 1
MaxCalls == 2

(* Program constants *)

maxRetries == 3

Null == 0

----------------------------------------------------------------------------
VARIABLES
  server,      \* the remote collection: what the API answers for each page
  mode,        \* "iter": a for-await consumer of paginate; "all": fetchAllPages
  params,      \* the caller's filter-parameter mapping (paginate: params)
  pc,          \* where the generator is suspended
  page,        \* paginate: let page
  hasMore,     \* paginate: let hasMore
  retryCount,  \* paginate: let retryCount
  response,    \* paginate: const response (while its items are being yielded)
  idx,         \* position of the for-of loop in response[key]
  backoffMs,   \* paginate: const backoffMs (while the delay is pending)
  error,       \* the error caught (while in the catch block) or thrown
  thrown,      \* TRUE once the generator has ended by throwing `error`
  abandoned,   \* the consumer stopped pulling
  received,    \* the items handed to the consumer so far, in order
  items,       \* fetchAllPages: const items
  returned,    \* fetchAllPages: the settlement of its promise
  fetchLog,    \* history: every client.get of the run, in order
  nWaits,      \* history: number of delay() calls of the run
  nPulls,      \* history: number of next() calls of the consumer that began or resumed the body
  bk,          \* calculateBackoff: its arguments and, once called, its result
  now,         \* poll: the clock, Date.now()
  intervalMs,  \* poll: options.intervalMs
  timeoutMs,   \* poll: options.timeoutMs
  startTime,   \* poll: const startTime
  action,      \* poll: let action
  pollPc,      \* poll: where it is suspended, or how it ended
  pollResult,  \* poll: the record it returned
  pollError,   \* poll: the error it threw
  pollLog,     \* history: every this.get(id) of the poll, in order
  nSleeps,     \* history: number of delay(intervalMs) calls of the poll
  runs,        \* concurrent runs: per run, where it is suspended and its block-scoped state
  cursor,      \* concurrent runs: per binding, the loop variables page, hasMore, retryCount
  alone,       \* concurrent runs: per run, the same run fed the same responses on its own
  rsp,         \* request: the Response that fetch resolved with
  raised,      \* request: how it settled, once it has
  urlParams,   \* buildUrl: the params object as its caller wrote it
  url,         \* buildUrl: the query pairs of the URL, once it is built
  calls,       \* successive calls: the number of paginate calls made so far
  fetchedEarlier, \* history: the pages fetched successfully by the earlier calls
  endPulls     \* history: the pulls of the current sequence answered with its end

pagVars == <<server, mode, params, pc, page, hasMore, retryCount, response, idx,
             backoffMs, error, thrown, abandoned, received, items, returned,
             fetchLog, nWaits, nPulls>>

pollVars == <<now, intervalMs, timeoutMs, startTime, action, pollPc,
              pollResult, pollError, pollLog, nSleeps>>

runVars == <<runs, cursor, alone>>

httpVars == <<rsp, raised>>

urlVars == <<urlParams, url>>

callVars == <<calls, fetchedEarlier, endPulls>>

otherVars == <<runVars, httpVars, urlVars, callVars>>

vars == <<pagVars, bk, pollVars, otherVars>>

----------------------------------------------------------------------------
(* Helpers *)

RECURSIVE Pow2(_)
Pow2(n) == IF n <= 0 THEN 1 ELSE 2 * Pow2(n - 1)

Max(a, b) == IF a >= b THEN a ELSE b

Last(s) == s[Len(s)]

IsPrefix(s, t) == Len(s) <= Len(t) /\ \A i \in 1..Len(s) : s[i] = t[i]

----------------------------------------------------------------------------
(* Query-parameter mappings (QueryParams, client.ts lines 48-50).
   A mapping is held as the sequence of its entries in the order in which
   Object.entries and the spread operator enumerate them. *)

Scalar(n) == [kind |-> "scalar", v |-> <<n>>]
Array(sq) == [kind |-> "array", v |-> sq]
Undefined == [kind |-> "undefined", v |-> <<>>]

Entry(k, val) == [key |-> k, value |-> val]

KeysOf(obj) == {obj[i].key : i \in 1..Len(obj)}

\* obj[k] for a key the mapping has
ValueOf(obj, k) == obj[CHOOSE i \in 1..Len(obj) : obj[i].key = k].value

\* obj[k] = val for a key that is not an array index: the value of an
\* existing key is replaced where it stands, a new key is added at the end
SetKey(obj, k, val) ==
  IF k \in KeysOf(obj)
  THEN [i \in 1..Len(obj) |-> IF obj[i].key = k THEN Entry(k, val) ELSE obj[i]]
  ELSE Append(obj, Entry(k, val))

\* (mutation) { page, ...params }: a page key of the caller wins
MergeCallerWins(ps, p) ==
  IF "page" \in KeysOf(ps) THEN ps ELSE Append(ps, Entry("page", Scalar(p)))

\* { ...params, page }: a fresh mapping with the entries of params, then page
Merge(ps, p) == SetKey(ps, "page", Scalar(p))

\* (mutation) params.page = page: the page is written into the caller's mapping
CallerParamsWritten(ps, p) == SetKey(ps, "page", Scalar(p))

\* the caller's mapping after { ...params, page } was built from it
CallerParams(ps, p) == ps

\* the filters the runs are called with
ParamChoices ==
  { <<>>,
    <<Entry("per_page", Scalar(10))>>,
    <<Entry("page", Scalar(9)), Entry("per_page", Scalar(10))>>,
    <<Entry("id", Array(<<3, 4>>)), Entry("sort", Undefined)>> }

----------------------------------------------------------------------------
(* The remote API *)

\* the item list of page p: len[p] items, each one identifiable
PageItems(p, n) == [i \in 1..n |-> p * 10 + i]

NoError == [kind |-> "none", retryAfter |-> 0, statusCode |-> 0]
RateLimitError(ra) == [kind |-> "ratelimit", retryAfter |-> ra, statusCode |-> 429]
HetznerError(st) == [kind |-> "http", retryAfter |-> 0, statusCode |-> st]

ErrorStatuses == {404, 500}

NoResponse == [present |-> FALSE, items |-> <<>>, next_page |-> Null,
               total_entries |-> 0]

\* what the API answers to a successful GET of page p
ServerPage(p) ==
  IF p \in DOMAIN server.len
  THEN [present |-> server.has[p], items |-> PageItems(p, server.len[p]),
        next_page |-> server.next[p], total_entries |-> server.total_entries]
  ELSE NoResponse

\* next_page chains page k to k+1 and is null on the last page
Chain(n) == [p \in 1..n |-> IF p < n THEN p + 1 ELSE Null]

\* the pagination metadata a server may report: the correct chain, or a
\* chain with the next_page of one page set to any other value
Wirings(n) == {Chain(n)} \cup
              {[Chain(n) EXCEPT ![p] = q] : p \in 1..n, q \in 0..n}

RECURSIVE SumLen(_)
SumLen(len) ==
  IF Len(len) = 0 THEN 0 ELSE Last(len) + SumLen(SubSeq(len, 1, Len(len) - 1))

\* a server: per page the length of its item list (has[p] = FALSE: the
\* response has no list under the items key), its next_page, and the
\* total_entries it reports, which is the true total or a wrong one
Servers ==
  UNION {{s \in [len : [1..n -> 0..MaxItems], has : [1..n -> BOOLEAN],
                 next : Wirings(n), total_entries : 0..(n * MaxItems)] :
            /\ \A p \in 1..n : ~s.has[p] => s.len[p] = 0
            /\ s.total_entries \in {SumLen(s.len), 0}}
         : n \in 1..MaxPages}

Chained == server.next = Chain(Len(server.len))

\* pagination.last_page as the server reports it: the number of its pages
LastPage == Len(server.len)

----------------------------------------------------------------------------
(* paginate *)

NoCall == [retryAfter |-> 0, retryCount |-> 0, called |-> FALSE, result |-> 0]

NoAction == [status |-> "none", error |-> [code |-> "", message |-> ""]]

NoPollError == [kind |-> "none", message |-> <<>>, action |-> NoAction,
                cause |-> NoError]

\* no poll has been started
PollIdle ==
  /\ now = 0
  /\ intervalMs = 0
  /\ timeoutMs = 0
  /\ startTime = 0
  /\ action = NoAction
  /\ pollPc = "idle"
  /\ pollResult = NoAction
  /\ pollError = NoPollError
  /\ pollLog = <<>>
  /\ nSleeps = 0

\* no concurrent runs have been started
RunsIdle ==
  /\ runs = <<>>
  /\ cursor = <<>>
  /\ alone = <<>>

NoResponseYet ==
  [status |-> 0, body |-> "none", retryAfter |-> [present |-> FALSE, text |-> <<>>]]

NotSettled ==
  [kind |-> "none", code |-> "", statusCode |-> 0,
   retryAfter |-> [nan |-> FALSE, n |-> 0]]

\* no request has been made
HttpIdle ==
  /\ rsp = NoResponseYet
  /\ raised = NotSettled

NotBuilt == [built |-> FALSE, pairs |-> <<>>]

\* no URL has been built
UrlIdle ==
  /\ urlParams = <<>>
  /\ url = NotBuilt

\* the first call of paginate
FirstCall ==
  /\ calls = 1
  /\ fetchedEarlier = {}
  /\ endPulls = 0

OthersIdle == RunsIdle /\ HttpIdle /\ UrlIdle /\ FirstCall

PaginateStart ==
  /\ pc = "start"
  /\ page = 1
  /\ hasMore = TRUE
  /\ retryCount = 0
  /\ response = NoResponse
  /\ idx = 0
  /\ backoffMs = 0
  /\ error = NoError
  /\ thrown = FALSE
  /\ abandoned = FALSE
  /\ received = <<>>
  /\ items = <<>>
  /\ returned = [kind |-> "pending", value |-> <<>>, error |-> NoError]
  /\ fetchLog = <<>>
  /\ nWaits = 0
  /\ nPulls = 0

\* a run called without filters: `params: QueryParams = {}`
PaginateInit ==
  /\ server \in Servers
  /\ mode \in {"iter", "all"}
  /\ params = <<>>
  /\ PaginateStart
  /\ bk = NoCall
  /\ PollIdle
  /\ OthersIdle

\* (mutation) the items of a page taken in reverse order
ItemsOfReversed(resp) ==
  IF resp.present
  THEN [i \in 1..Len(resp.items) |-> resp.items[Len(resp.items) + 1 - i]]
  ELSE <<>>

\* response[key], and `if (items)`: an absent list is iterated as an empty one
ItemsOf(resp) == IF resp.present THEN resp.items ELSE <<>>

\* (mutation) the end of the collection decided with total_entries as well
HasMoreByTotal(resp) == resp.next_page # Null /\ resp.total_entries # 0

\* hasMore = pagination.next_page !== null
HasMoreOf(resp) == resp.next_page # Null

\* (mutation) the cursor counts up and ignores next_page
NextPageIncrement(resp, p) == p + 1

\* (mutation) the cursor is not advanced
NextPageSame(resp, p) == p

\* page = pagination.next_page ?? page + 1
NextPageOf(resp, p) == IF resp.next_page # Null THEN resp.next_page ELSE p + 1

\* (mutation) one retry too many: retryCount <= maxRetries
ShouldRetryOffByOne(err, rc) == err.kind = "ratelimit" /\ rc <= maxRetries

\* (mutation) every error is retried, not only a RateLimitError
ShouldRetryAnyError(err, rc) == rc < maxRetries

\* the catch clause: error instanceof RateLimitError && retryCount < maxRetries
ShouldRetry(err, rc) == err.kind = "ratelimit" /\ rc < maxRetries

\* (mutation) the wait computed from retryCount before its increment
BackoffOfOldCount(retryAfter, rc) == Max(retryAfter * 1000, 100 * Pow2(rc - 1))

\* Math.max(error.retryAfter * 1000, 100 * Math.pow(2, retryCount))
BackoffOf(retryAfter, rc) == Max(retryAfter * 1000, 100 * Pow2(rc))

\* (mutation) a producer that runs on without waiting for a pull
ResumesEagerly(ab) == TRUE

\* the generator is resumed from `yield` (or started) only by a pull
ResumesOnPull(ab) == ~ab

\* the history of fetches with its last (outstanding) entry settled
Settle(res) == [fetchLog EXCEPT ![Len(fetchLog)].res = res]

\* (mutation) the next page is requested along with the page asked for
IssueFetchWithPrefetch(f, p, rc) ==
  /\ Len(f) + 1 < MaxFetches
  /\ pc' = "fetching"
  /\ fetchLog' = f \o
       <<[page |-> p, res |-> "pending", retryCount |-> rc,
          query |-> Merge(params, p)],
         [page |-> p + 1, res |-> "pending", retryCount |-> rc,
          query |-> Merge(params, p + 1)]>>
  /\ params' = CallerParams(params, p)

\* `while (hasMore)` with hasMore true: await client.get(path, {...params, page})
\* (f is the fetch history as of this run of the body)
IssueFetch(f, p, rc) ==
  /\ Len(f) < MaxFetches
  /\ pc' = "fetching"
  /\ fetchLog' = Append(f, [page |-> p, res |-> "pending", retryCount |-> rc,
                            query |-> Merge(params, p)])
  /\ params' = CallerParams(params, p)

\* `while (hasMore)` with hasMore false: the generator function returns
Finish(f) ==
  /\ pc' = "done"
  /\ fetchLog' = f
  /\ UNCHANGED params

\* (mutation) retryCount is not reset after a successful page
AfterPageKeepsRetryCount(f, resp) ==
  /\ hasMore' = (resp.next_page # Null)
  /\ page' = (IF resp.next_page # Null THEN resp.next_page ELSE page + 1)
  /\ retryCount' = retryCount
  /\ response' = NoResponse
  /\ idx' = 0
  /\ UNCHANGED received
  /\ IF hasMore' THEN IssueFetch(f, page', retryCount') ELSE Finish(f)

\* lines 47-50, then the loop test of line 33
AfterPage(f, resp) ==
  /\ hasMore' = HasMoreOf(resp)
  /\ page' = NextPageOf(resp, page)
  /\ retryCount' = 0
  /\ response' = NoResponse
  /\ idx' = 0
  /\ UNCHANGED received
  /\ IF hasMore' THEN IssueFetch(f, page', retryCount') ELSE Finish(f)

\* (mutation) the next page is requested as soon as the last item of a page
\* is handed out
YieldItemFetchingAhead(f, resp, i) ==
  IF i = Len(ItemsOf(resp)) /\ HasMoreOf(resp)
  THEN /\ received' = Append(received, ItemsOf(resp)[i])
       /\ hasMore' = TRUE
       /\ page' = NextPageOf(resp, page)
       /\ retryCount' = 0
       /\ response' = NoResponse
       /\ idx' = 0
       /\ IssueFetch(f, page', 0)
  ELSE /\ response' = resp
       /\ idx' = i
       /\ received' = Append(received, ItemsOf(resp)[i])
       /\ pc' = "yielded"
       /\ fetchLog' = f
       /\ UNCHANGED <<page, hasMore, retryCount, params>>

\* `yield item` for the item at position i of the page being iterated
YieldItem(f, resp, i) ==
  /\ response' = resp
  /\ idx' = i
  /\ received' = Append(received, ItemsOf(resp)[i])
  /\ pc' = "yielded"
  /\ fetchLog' = f
  /\ UNCHANGED <<page, hasMore, retryCount, params>>

\* (mutation) a page without items ends the sequence
IterateFromStopsOnEmpty(f, resp, i) ==
  IF i <= Len(ItemsOf(resp)) THEN YieldItem(f, resp, i)
  ELSE IF Len(ItemsOf(resp)) = 0
       THEN /\ hasMore' = FALSE
            /\ retryCount' = 0
            /\ response' = NoResponse
            /\ idx' = 0
            /\ UNCHANGED <<page, received>>
            /\ Finish(f)
       ELSE AfterPage(f, resp)

\* the for-of loop over the items, entered at position i
IterateFrom(f, resp, i) ==
  IF i <= Len(ItemsOf(resp)) THEN YieldItem(f, resp, i) ELSE AfterPage(f, resp)

\* The consumer pulls: the first next() starts the body, a later one resumes
\* it after `yield`.  In fetchAllPages the pull follows items.push(item).
Pull ==
  /\ pc \in {"start", "yielded"}
  /\ ResumesOnPull(abandoned)
  /\ nPulls' = nPulls + 1
  /\ items' = IF mode = "all" /\ pc = "yielded" THEN Append(items, Last(received))
              ELSE items
  /\ IF pc = "start"
     THEN /\ IssueFetch(fetchLog, page, retryCount)
          /\ UNCHANGED <<page, hasMore, retryCount, response, idx, received>>
     ELSE IterateFrom(fetchLog, response, idx + 1)
  /\ UNCHANGED <<server, mode, backoffMs, error, thrown, abandoned, returned, nWaits,
                 bk, pollVars, otherVars>>

\* the page number the server reads in the query of a request
RequestedPage(q) == ValueOf(q, "page").v[1]

\* client.get resolves with the page: lines 40-50
FetchOk ==
  /\ pc = "fetching"
  /\ IterateFrom(Settle("ok"), ServerPage(RequestedPage(Last(fetchLog).query)), 1)
  /\ UNCHANGED <<server, mode, nPulls, backoffMs, error, thrown, abandoned, items,
                 returned, nWaits,
                 bk, pollVars, otherVars>>

\* (mutation) retryCount counts the attempt that exhausts the budget as well
CatchCountsEveryRateLimit(err) ==
  /\ error' = err
  /\ retryCount' = IF err.kind = "ratelimit" THEN retryCount + 1 ELSE retryCount
  /\ IF ShouldRetry(err, retryCount)
     THEN /\ backoffMs' = BackoffOf(err.retryAfter, retryCount')
          /\ nWaits' = nWaits + 1
          /\ pc' = "backoff"
          /\ thrown' = FALSE
     ELSE /\ pc' = "done"
          /\ thrown' = TRUE
          /\ UNCHANGED <<backoffMs, nWaits>>
  /\ UNCHANGED <<page, hasMore, response, idx, received, params>>

\* client.get rejects with err: the catch clause, lines 51-59
Catch(err) ==
  /\ error' = err
  /\ IF ShouldRetry(err, retryCount)
     THEN /\ retryCount' = retryCount + 1
          /\ backoffMs' = BackoffOf(err.retryAfter, retryCount')
          /\ nWaits' = nWaits + 1
          /\ pc' = "backoff"
          /\ thrown' = FALSE
     ELSE /\ pc' = "done"
          /\ thrown' = TRUE
          /\ UNCHANGED <<retryCount, backoffMs, nWaits>>
  /\ UNCHANGED <<page, hasMore, response, idx, received, params>>

\* client.get rejects with a RateLimitError (HTTP 429)
FetchRateLimited ==
  /\ pc = "fetching"
  /\ \E ra \in 0..MaxRetryAfter : Catch(RateLimitError(ra))
  /\ fetchLog' = Settle("ratelimit")
  /\ UNCHANGED <<server, mode, nPulls, abandoned, items, returned,
                 bk, pollVars, otherVars>>

\* client.get rejects with any other HetznerError
FetchFailed ==
  /\ pc = "fetching"
  /\ \E st \in ErrorStatuses : Catch(HetznerError(st))
  /\ fetchLog' = Settle("error")
  /\ UNCHANGED <<server, mode, nPulls, abandoned, items, returned,
                 bk, pollVars, otherVars>>

\* the backoff timer fires: `continue` leaves the catch block (error and
\* backoffMs go out of scope) and the loop fetches the same page
DelayElapsed ==
  /\ pc = "backoff"
  /\ backoffMs' = 0
  /\ error' = NoError
  /\ IssueFetch(fetchLog, page, retryCount)
  /\ UNCHANGED <<server, mode, nPulls, page, hasMore, retryCount, response, idx,
                 thrown, abandoned, received, items, returned, nWaits,
                 bk, pollVars, otherVars>>

\* The consumer of a for-await loop stops pulling while it holds an item (or
\* before its first pull): with `break` the loop calls return() on the
\* generator, which closes it; a consumer may also just drop the iterator.
Abandon ==
  /\ mode = "iter"
  /\ pc \in {"start", "yielded"}
  /\ ~abandoned
  /\ abandoned' = TRUE
  /\ \E callsReturn \in BOOLEAN : pc' = IF callsReturn THEN "done" ELSE pc
  /\ UNCHANGED <<server, mode, nPulls, params, page, hasMore, retryCount, response, idx,
                 backoffMs, error, thrown, received, items, returned,
                 fetchLog, nWaits,
                 bk, pollVars, otherVars>>

----------------------------------------------------------------------------
(* fetchAllPages *)

\* (mutation) the items collected so far are returned when paginate throws
OutcomePartial(didThrow, err, its) ==
  [kind |-> "fulfilled", value |-> its, error |-> NoError]

\* what fetchAllPages hands to its caller once the for-await loop has ended:
\* `return items` after a normal end, the generator's error otherwise
Outcome(didThrow, err, its) ==
  IF didThrow
  THEN [kind |-> "rejected", value |-> <<>>, error |-> err]
  ELSE [kind |-> "fulfilled", value |-> its, error |-> NoError]

FetchAllSettle ==
  /\ mode = "all"
  /\ pc = "done"
  /\ returned.kind = "pending"
  /\ returned' = Outcome(thrown, error, items)
  /\ UNCHANGED <<server, mode, nPulls, params, pc, page, hasMore, retryCount, response,
                 idx, backoffMs, error, thrown, abandoned, received, items,
                 fetchLog, nWaits,
                 bk, pollVars, otherVars>>

PaginateNext ==
  \/ Pull
  \/ FetchOk
  \/ FetchRateLimited
  \/ FetchFailed
  \/ DelayElapsed
  \/ Abandon
  \/ FetchAllSettle

Init == PaginateInit
Next == PaginateNext
Spec == Init /\ [][Next]_vars

\* runs called with filters, against servers that chain their pages
ParamsInit ==
  /\ server \in {sv \in Servers : sv.next = Chain(Len(sv.len))}
  /\ mode \in {"iter", "all"}
  /\ params \in ParamChoices
  /\ PaginateStart
  /\ bk = NoCall
  /\ PollIdle
  /\ OthersIdle

SpecParams == ParamsInit /\ [][PaginateNext]_vars

----------------------------------------------------------------------------
(* Successive calls of paginate over one collection, and pulls of a sequence
   that has ended.  A generator that has returned, thrown or been closed by
   return() is completed: next() resolves with { done: true } and does not
   run the body. *)

\* the consumer pulls a sequence that has ended
PullEnded ==
  /\ mode = "iter"
  /\ pc = "done"
  /\ endPulls < MaxEndPulls
  /\ endPulls' = endPulls + 1
  /\ UNCHANGED <<pagVars, calls, fetchedEarlier, bk, pollVars, runVars, httpVars, urlVars>>

\* (mutation) the loop variables of the earlier call are kept
NewCallKeepsCursor(old) == old

\* lines 28-30: every call binds page, hasMore and retryCount anew
NewCall(old) == [page |-> 1, hasMore |-> TRUE, retryCount |-> 0]

OkPages(f) == {f[i].page : i \in {j \in 1..Len(f) : f[j].res = "ok"}}

\* the caller is done with a sequence (it has ended, or the caller has dropped
\* it; fetchAllPages has settled) and calls paginate again
Restart ==
  /\ calls < MaxCalls
  /\ IF mode = "all" THEN returned.kind # "pending" ELSE (pc = "done" \/ abandoned)
  /\ pc \in {"done", "start", "yielded"}
  /\ calls' = calls + 1
  /\ fetchedEarlier' = fetchedEarlier \cup OkPages(fetchLog)
  /\ endPulls' = 0
  /\ LET c == NewCall([page |-> page, hasMore |-> hasMore, retryCount |-> retryCount])
     IN /\ page' = c.page
        /\ hasMore' = c.hasMore
        /\ retryCount' = c.retryCount
  /\ pc' = "start"
  /\ response' = NoResponse
  /\ idx' = 0
  /\ backoffMs' = 0
  /\ error' = NoError
  /\ thrown' = FALSE
  /\ abandoned' = FALSE
  /\ received' = <<>>
  /\ items' = <<>>
  /\ returned' = [kind |-> "pending", value |-> <<>>, error |-> NoError]
  /\ fetchLog' = <<>>
  /\ nWaits' = 0
  /\ nPulls' = 0
  /\ UNCHANGED <<server, mode, params, bk, pollVars, runVars, httpVars, urlVars>>

\* calls over a collection whose pages chain and all hold an item list
RestartInit ==
  /\ server \in {sv \in Servers :
                   /\ sv.next = Chain(Len(sv.len))
                   /\ \A p \in 1..Len(sv.len) : sv.has[p]
                   /\ sv.total_entries = SumLen(sv.len)}
  /\ mode \in {"iter", "all"}
  /\ params = <<>>
  /\ PaginateStart
  /\ bk = NoCall
  /\ PollIdle
  /\ OthersIdle

RestartNext ==
  \/ PaginateNext
  \/ PullEnded
  \/ Restart

SpecRestart == RestartInit /\ [][RestartNext]_vars

----------------------------------------------------------------------------
(* Concurrent runs of paginate.
   Every call of paginate creates a generator object with an activation of
   its own: `let page`, `let hasMore`, `let retryCount` (lines 28-30) are
   bound anew by each call.  The runs share the client and the server. *)

RunIds == {1, 2}

\* (mutation) page, hasMore and retryCount declared once, outside the function
BindingShared(r) == 1

\* the binding of the loop variables that run r reads and writes
BindingOf(r) == r

\* the state of a run before its first pull: lines 28-30
RunStart ==
  [pc |-> "start", page |-> 1, hasMore |-> TRUE, retryCount |-> 0,
   requested |-> 0, response |-> NoResponse, idx |-> 0, backoffMs |-> 0,
   error |-> NoError, thrown |-> FALSE, received |-> <<>>]

LoopVarsOf(st) ==
  [page |-> st.page, hasMore |-> st.hasMore, retryCount |-> st.retryCount]

LocalsOf(st) ==
  [pc |-> st.pc, requested |-> st.requested, response |-> st.response,
   idx |-> st.idx, backoffMs |-> st.backoffMs, error |-> st.error,
   thrown |-> st.thrown, received |-> st.received]

\* the state run r sees: its own position, and the loop variables it is bound to
Frame(r) ==
  [pc |-> runs[r].pc,
   page |-> cursor[BindingOf(r)].page,
   hasMore |-> cursor[BindingOf(r)].hasMore,
   retryCount |-> cursor[BindingOf(r)].retryCount,
   requested |-> runs[r].requested, response |-> runs[r].response,
   idx |-> runs[r].idx, backoffMs |-> runs[r].backoffMs,
   error |-> runs[r].error, thrown |-> runs[r].thrown,
   received |-> runs[r].received]

\* the loop test of line 33, then client.get(path, {...params, page})
RunFetch(st) ==
  IF st.hasMore
  THEN [st EXCEPT !.pc = "fetching", !.requested = st.page]
  ELSE [st EXCEPT !.pc = "done"]

\* lines 47-50 once the items of the page are exhausted
RunAfterPage(st, resp) ==
  RunFetch([st EXCEPT !.hasMore = HasMoreOf(resp),
                      !.page = NextPageOf(resp, st.page),
                      !.retryCount = 0,
                      !.response = NoResponse,
                      !.idx = 0])

\* the for-of loop of lines 42-44 entered at position i
RunIterate(st, resp, i) ==
  IF i <= Len(ItemsOf(resp))
  THEN [st EXCEPT !.response = resp, !.idx = i,
                  !.received = Append(st.received, ItemsOf(resp)[i]),
                  !.pc = "yielded"]
  ELSE RunAfterPage(st, resp)

\* the catch clause, lines 51-59
RunCatch(st, err) ==
  IF ShouldRetry(err, st.retryCount)
  THEN [st EXCEPT !.retryCount = st.retryCount + 1,
                  !.backoffMs = BackoffOf(err.retryAfter, st.retryCount + 1),
                  !.error = err,
                  !.pc = "backoff"]
  ELSE [st EXCEPT !.error = err, !.thrown = TRUE, !.pc = "done"]

Ev(t, resp, err) == [type |-> t, response |-> resp, error |-> err]

\* one resumption of a run: by a pull, by the settlement of its fetch, or by
\* its backoff timer
RunStep(st, ev) ==
  CASE ev.type = "pull" ->
         IF st.pc = "start" THEN RunFetch(st)
         ELSE RunIterate(st, st.response, st.idx + 1)
    [] ev.type = "ok" -> RunIterate(st, ev.response, 1)
    [] ev.type = "reject" -> RunCatch(st, ev.error)
    [] ev.type = "timer" -> RunFetch([st EXCEPT !.backoffMs = 0, !.error = NoError])

\* run r is resumed by ev; the same event is fed to the run on its own
Deliver(r, ev) ==
  LET st == RunStep(Frame(r), ev) IN
  /\ runs' = [runs EXCEPT ![r] = LocalsOf(st)]
  /\ cursor' = [cursor EXCEPT ![BindingOf(r)] = LoopVarsOf(st)]
  /\ alone' = [alone EXCEPT ![r] = RunStep(alone[r], ev)]
  /\ UNCHANGED <<pagVars, bk, pollVars, httpVars, urlVars, callVars>>

RunPull(r) ==
  /\ runs[r].pc \in {"start", "yielded"}
  /\ Deliver(r, Ev("pull", NoResponse, NoError))

RunFetchOk(r) ==
  /\ runs[r].pc = "fetching"
  /\ Deliver(r, Ev("ok", ServerPage(runs[r].requested), NoError))

RunFetchRateLimited(r) ==
  /\ runs[r].pc = "fetching"
  /\ \E ra \in 0..MaxRetryAfter :
       Deliver(r, Ev("reject", NoResponse, RateLimitError(ra)))

RunFetchFailed(r) ==
  /\ runs[r].pc = "fetching"
  /\ \E st \in ErrorStatuses :
       Deliver(r, Ev("reject", NoResponse, HetznerError(st)))

RunDelayElapsed(r) ==
  /\ runs[r].pc = "backoff"
  /\ Deliver(r, Ev("timer", NoResponse, NoError))

\* two runs over one collection whose pages chain and hold one item each
TwoRunsInit ==
  /\ server \in {sv \in Servers :
                   /\ sv.next = Chain(Len(sv.len))
                   /\ \A p \in 1..Len(sv.len) : sv.has[p] /\ sv.len[p] = 1
                   /\ sv.total_entries = SumLen(sv.len)}
  /\ mode = "iter"
  /\ params = <<>>
  /\ PaginateStart
  /\ bk = NoCall
  /\ PollIdle
  /\ HttpIdle
  /\ UrlIdle
  /\ FirstCall
  /\ runs = [r \in RunIds |-> LocalsOf(RunStart)]
  /\ cursor = [r \in RunIds |-> LoopVarsOf(RunStart)]
  /\ alone = [r \in RunIds |-> RunStart]

TwoRunsNext ==
  \/ \E r \in RunIds : RunPull(r)
  \/ \E r \in RunIds : RunFetchOk(r)
  \/ \E r \in RunIds : RunFetchRateLimited(r)
  \/ \E r \in RunIds : RunFetchFailed(r)
  \/ \E r \in RunIds : RunDelayElapsed(r)

SpecTwoRuns == TwoRunsInit /\ [][TwoRunsNext]_vars

----------------------------------------------------------------------------
(* calculateBackoff *)

Min(a, b) == IF a <= b THEN a ELSE b

\* (mutation) Math.min in place of Math.max
calculateBackoffMin(retryAfter, rc) == Min(retryAfter * 1000, 100 * Pow2(rc))

\* (mutation) the exponent counts attempts from 0
calculateBackoffZeroIndexed(retryAfter, rc) ==
  Max(retryAfter * 1000, 100 * Pow2(rc - 1))

\* Math.max(retryAfter * 1000, 100 * Math.pow(2, retryCount))
calculateBackoff(retryAfter, rc) == Max(retryAfter * 1000, 100 * Pow2(rc))

\* a server that is not used: one empty page
IdleServer == [len |-> <<0>>, has |-> <<TRUE>>, next |-> <<Null>>,
               total_entries |-> 0]

BackoffInit ==
  /\ bk \in [retryAfter : 0..MaxDelay, retryCount : 0..MaxAttempt,
              called : {FALSE}, result : {0}]
  /\ server = IdleServer
  /\ mode = "iter"
  /\ params = <<>>
  /\ PaginateStart
  /\ PollIdle
  /\ OthersIdle

CallBackoff ==
  /\ ~bk.called
  /\ bk' = [bk EXCEPT !.called = TRUE,
                      !.result = calculateBackoff(bk.retryAfter, bk.retryCount)]
  /\ UNCHANGED <<pagVars, pollVars, otherVars>>

BackoffNext == CallBackoff

SpecBackoff == BackoffInit /\ [][BackoffNext]_vars

----------------------------------------------------------------------------
(* ActionsApi.poll *)

\* the records this.get(id) may resolve with
ActionRecords ==
  {[status |-> st, error |-> [code |-> "", message |-> ""]] :
     st \in {"running", "success", "cancelled"}}
  \cup {[status |-> "error",
         error |-> [code |-> "server_error", message |-> "went wrong"]]}

\* the errors this.get(id) may reject with
FetchErrors == {RateLimitError(0), HetznerError(404)}

\* new Error(`Action ${id} timed out after ${timeoutMs}ms`)
TimeoutError(ms) ==
  [kind |-> "timeout", message |-> <<"Action timed out after", ms>>,
   action |-> NoAction, cause |-> NoError]

\* (mutation) an error that names neither the code nor the message
ActionErrorBare(a) ==
  [kind |-> "action", message |-> <<"Action failed">>,
   action |-> a, cause |-> NoError]

\* new ActionError(action, `Action failed: ${code} - ${message}`)
ActionError(a) ==
  [kind |-> "action",
   message |-> <<"Action failed: ", a.error.code, " - ", a.error.message>>,
   action |-> a, cause |-> NoError]

\* an error of this.get(id), passed on unchanged
FetchError(err) ==
  [kind |-> "fetch", message |-> <<>>, action |-> NoAction, cause |-> err]

\* (mutation) the loop re-fetches without waiting for the interval
WakeTimeNoDelay(t, interval, late) == t + late

\* await delay(intervalMs): the timer fires intervalMs later, or later still
WakeTime(t, interval, late) == t + interval + late

\* (mutation) only a record with status success is returned
PollDecisionRequiresSuccess(status, elapsed, timeout) ==
  IF status = "running"
  THEN IF elapsed > timeout THEN "timeout" ELSE "sleep"
  ELSE IF status = "success" THEN "return" ELSE "fail"

\* (mutation) the elapsed time is tested before the status
PollDecisionTimeoutFirst(status, elapsed, timeout) ==
  IF elapsed > timeout THEN "timeout"
  ELSE IF status = "running" THEN "sleep"
  ELSE IF status = "error" THEN "fail" ELSE "return"

\* (mutation) the timeout is raised as soon as the deadline is reached
PollDecisionAtDeadline(status, elapsed, timeout) ==
  IF status = "running"
  THEN IF elapsed >= timeout THEN "timeout" ELSE "sleep"
  ELSE IF status = "error" THEN "fail" ELSE "return"

\* What poll does with a fetched record: the loop test of line 137, the
\* elapsed-time test of line 138 and the status test of line 146.
PollDecision(status, elapsed, timeout) ==
  IF status = "running"
  THEN IF elapsed > timeout THEN "timeout" ELSE "sleep"
  ELSE IF status = "error" THEN "fail" ELSE "return"

PollInit ==
  /\ now \in {0, 7}
  /\ intervalMs \in 0..MaxInterval
  /\ timeoutMs \in 0..MaxTimeout
  /\ startTime = 0
  /\ action = NoAction
  /\ pollPc = "idle"
  /\ pollResult = NoAction
  /\ pollError = NoPollError
  /\ pollLog = <<>>
  /\ nSleeps = 0
  /\ bk = NoCall
  /\ server = IdleServer
  /\ mode = "iter"
  /\ params = <<>>
  /\ PaginateStart
  /\ OthersIdle

\* this.get(id) is called
IssueGet(t) ==
  /\ Len(pollLog) < MaxPollFetches
  /\ pollLog' = Append(pollLog, [status |-> "pending", issued |-> t, settled |-> t])
  /\ pollPc' = "fetching"

SettleGet(st, t) ==
  [pollLog EXCEPT ![Len(pollLog)].status = st, ![Len(pollLog)].settled = t]

\* poll is called: lines 133-135
PollStart ==
  /\ pollPc = "idle"
  /\ startTime' = now
  /\ IssueGet(now)
  /\ UNCHANGED <<now, intervalMs, timeoutMs, action, pollResult, pollError, nSleeps>>
  /\ UNCHANGED <<pagVars, bk, otherVars>>

\* this.get(id) resolves with a record after d ms: lines 137-153
PollFetched ==
  /\ pollPc = "fetching"
  /\ \E a \in ActionRecords, d \in 0..MaxFetchTime :
       /\ now' = now + d
       /\ action' = a
       /\ pollLog' = SettleGet(a.status, now')
       /\ LET what == PollDecision(a.status, now' - startTime, timeoutMs) IN
          /\ pollPc' = CASE what = "timeout" -> "threw"
                         [] what = "sleep" -> "sleeping"
                         [] what = "fail" -> "threw"
                         [] OTHER -> "returned"
          /\ pollError' = CASE what = "timeout" -> TimeoutError(timeoutMs)
                            [] what = "fail" -> ActionError(a)
                            [] OTHER -> pollError
          /\ pollResult' = IF what = "return" THEN a ELSE pollResult
          /\ nSleeps' = IF what = "sleep" THEN nSleeps + 1 ELSE nSleeps
  /\ UNCHANGED <<intervalMs, timeoutMs, startTime>>
  /\ UNCHANGED <<pagVars, bk, otherVars>>

\* (mutation) a rate-limited fetch is retried after the interval
PollFetchRejectedRetries ==
  /\ pollPc = "fetching"
  /\ \E err \in FetchErrors, d \in 0..MaxFetchTime :
       /\ now' = now + d
       /\ pollLog' = SettleGet("rejected", now')
       /\ IF err.kind = "ratelimit"
          THEN pollPc' = "sleeping" /\ nSleeps' = nSleeps + 1 /\ pollError' = pollError
          ELSE pollPc' = "threw" /\ nSleeps' = nSleeps /\ pollError' = FetchError(err)
  /\ UNCHANGED <<intervalMs, timeoutMs, startTime, action, pollResult>>
  /\ UNCHANGED <<pagVars, bk, otherVars>>

\* this.get(id) rejects after d ms: poll rejects with the same error
PollFetchRejected ==
  /\ pollPc = "fetching"
  /\ \E err \in FetchErrors, d \in 0..MaxFetchTime :
       /\ now' = now + d
       /\ pollLog' = SettleGet("rejected", now')
       /\ pollError' = FetchError(err)
  /\ pollPc' = "threw"
  /\ UNCHANGED <<intervalMs, timeoutMs, startTime, action, pollResult, nSleeps>>
  /\ UNCHANGED <<pagVars, bk, otherVars>>

\* the interval timer fires: line 143
PollWake ==
  /\ pollPc = "sleeping"
  /\ \E late \in 0..MaxJitter :
       /\ now' = WakeTime(now, intervalMs, late)
       /\ IssueGet(now')
  /\ UNCHANGED <<intervalMs, timeoutMs, startTime, action, pollResult,
                 pollError, nSleeps>>
  /\ UNCHANGED <<pagVars, bk, otherVars>>

PollNext ==
  \/ PollStart
  \/ PollFetched
  \/ PollFetchRejected
  \/ PollWake

SpecPoll == PollInit /\ [][PollNext]_vars

\* the event loop runs every callback that is due: a started poll issues its
\* fetch, a pending fetch settles, a timer that was set fires
PollFairness ==
  /\ WF_vars(PollStart)
  /\ WF_vars(PollFetched \/ PollFetchRejected)
  /\ WF_vars(PollWake)

SpecPollLive == PollInit /\ [][PollNext]_vars /\ PollFairness

----------------------------------------------------------------------------
(* HetznerClient.request and handleError (src/src/client.ts) *)

\* the characters a Retry-After header value is made of here: two digits
\* and a character that is not a digit
HeaderChars == {"0", "3", "x"}

Decimal == <<"0", "1", "2", "3", "4", "5", "6", "7", "8", "9">>

IsDigit(c) == \E d \in 1..10 : Decimal[d] = c

DigitOf(c) == (CHOOSE d \in 1..10 : Decimal[d] = c) - 1

\* the value of a sequence of decimal digits
RECURSIVE DecimalValue(_)
DecimalValue(cs) ==
  IF Len(cs) = 0 THEN 0
  ELSE 10 * DecimalValue(SubSeq(cs, 1, Len(cs) - 1)) + DigitOf(Last(cs))

\* the length of the longest prefix of cs made of digits
RECURSIVE DigitPrefix(_)
DigitPrefix(cs) ==
  IF Len(cs) = 0 \/ ~IsDigit(cs[1]) THEN 0 ELSE 1 + DigitPrefix(Tail(cs))

Num(n) == [nan |-> FALSE, n |-> n]
NaN == [nan |-> TRUE, n |-> 0]

\* parseInt(text, 10) for a text without white space or sign: the value of
\* its leading digits, NaN when it does not start with a digit
ParseInt(cs) ==
  IF DigitPrefix(cs) = 0 THEN NaN
  ELSE Num(DecimalValue(SubSeq(cs, 1, DigitPrefix(cs))))

AbsentHeader == [present |-> FALSE, text |-> <<>>]
Header(cs) == [present |-> TRUE, text |-> cs]

Texts(n) == UNION {[1..k -> HeaderChars] : k \in 0..n}

\* response.headers.get("Retry-After") ?? "0"
HeaderOrZero(h) == IF h.present THEN h.text ELSE <<"0">>

\* the statuses the API answers with
Statuses == {200, 204, 400, 404, 429, 500, 503}

\* response.ok
Ok(status) == status >= 200 /\ status <= 299

\* the body of a response: the API's error object { error: { code, message } },
\* a JSON object without an error member, or a text that is not JSON
Bodies == {"error", "object", "text"}

Responses ==
  [status : Statuses, body : Bodies,
   retryAfter : {AbsentHeader} \cup {Header(cs) : cs \in Texts(MaxHeaderLen)}]

Returned == [kind |-> "returned", code |-> "", statusCode |-> 0, retryAfter |-> Num(0)]

\* response.json() of a body that is not JSON
SyntaxError == [kind |-> "SyntaxError", code |-> "", statusCode |-> 0, retryAfter |-> Num(0)]

\* const { code, message } = errorData.error with errorData.error undefined
TypeError == [kind |-> "TypeError", code |-> "", statusCode |-> 0, retryAfter |-> Num(0)]

ApiError(c, st) ==
  [kind |-> "HetznerError", code |-> c, statusCode |-> st, retryAfter |-> Num(0)]

ApiRateLimitError(c, ra) ==
  [kind |-> "RateLimitError", code |-> c, statusCode |-> 429, retryAfter |-> ra]

\* the code member of the API's error object
CodeOf(res) == IF res.status = 429 THEN "rate_limit_exceeded" ELSE "api_error"

\* (mutation) the status is tested before the body is parsed
handleErrorStatusFirst(res) ==
  IF res.status = 429
  THEN ApiRateLimitError(IF res.body = "error" THEN CodeOf(res) ELSE "unknown",
                         ParseInt(HeaderOrZero(res.retryAfter)))
  ELSE IF res.body = "text" THEN ApiError("unknown", res.status)
  ELSE IF res.body = "object" THEN TypeError
  ELSE ApiError(CodeOf(res), res.status)

\* handleError, lines 179-200: what it throws
handleError(res) ==
  IF res.body = "text" THEN ApiError("unknown", res.status)
  ELSE IF res.body = "object" THEN TypeError
  ELSE IF res.status = 429
       THEN ApiRateLimitError(CodeOf(res),
                              ParseInt(HeaderOrZero(res.retryAfter)))
       ELSE ApiError(CodeOf(res), res.status)

\* request, lines 145-155: how it settles once fetch has resolved
request(res) ==
  IF ~Ok(res.status) THEN handleError(res)
  ELSE IF res.status = 204 THEN Returned
  ELSE IF res.body = "text" THEN SyntaxError
  ELSE Returned

TransportInit ==
  /\ rsp \in Responses
  /\ raised = NotSettled
  /\ server = IdleServer
  /\ mode = "iter"
  /\ params = <<>>
  /\ PaginateStart
  /\ bk = NoCall
  /\ PollIdle
  /\ RunsIdle
  /\ UrlIdle
  /\ FirstCall

Request ==
  /\ raised = NotSettled
  /\ raised' = request(rsp)
  /\ UNCHANGED <<rsp, pagVars, bk, pollVars, runVars, urlVars, callVars>>

TransportNext == Request

SpecTransport == TransportInit /\ [][TransportNext]_vars

----------------------------------------------------------------------------
(* paginate over HetznerClient: the rejections of client.get are the errors
   that request raises for the responses of the API *)

\* the responses with which the API refuses a page request
Refusals ==
  [status : {404, 429, 500}, body : Bodies,
   retryAfter : {AbsentHeader} \cup {Header(<<Decimal[n + 1]>>) : n \in 0..MaxRetryAfter}]

\* the error as the catch clause of paginate sees it: `error instanceof
\* RateLimitError`, error.retryAfter, and the status code
AsCaught(e) ==
  [kind |-> IF e.kind = "RateLimitError" THEN "ratelimit"
            ELSE IF e.kind = "HetznerError" THEN "http" ELSE "other",
   retryAfter |-> IF e.kind = "RateLimitError" THEN e.retryAfter.n ELSE 0,
   statusCode |-> e.statusCode]

\* fetch resolves with a response that is not ok: request rejects with what
\* handleError throws, and the catch clause of paginate handles it
FetchRefused ==
  /\ pc = "fetching"
  /\ \E res \in Refusals :
       /\ rsp' = res
       /\ raised' = request(res)
       /\ Catch(AsCaught(raised'))
       /\ fetchLog' = Settle(IF raised'.kind = "RateLimitError" THEN "ratelimit"
                             ELSE "error")
  /\ UNCHANGED <<server, mode, nPulls, abandoned, items, returned,
                 bk, pollVars, runVars, urlVars, callVars>>

\* runs over a collection whose pages chain and hold one item each
ClientInit ==
  /\ server \in {sv \in Servers :
                   /\ sv.next = Chain(Len(sv.len))
                   /\ \A p \in 1..Len(sv.len) : sv.has[p] /\ sv.len[p] = 1
                   /\ sv.total_entries = SumLen(sv.len)}
  /\ mode \in {"iter", "all"}
  /\ params = <<>>
  /\ PaginateStart
  /\ bk = NoCall
  /\ PollIdle
  /\ OthersIdle

ClientNext ==
  \/ Pull
  \/ FetchOk
  \/ FetchRefused
  \/ DelayElapsed
  \/ Abandon
  \/ FetchAllSettle

SpecClient == ClientInit /\ [][ClientNext]_vars

----------------------------------------------------------------------------
(* buildUrl (src/src/client.ts, src/src/base-client.ts) *)

\* the keys that are array indices (canonical decimal numerals), with their
\* numeric value
IndexValue == ("2" :> 2) @@ ("10" :> 10)

IsIndexKey(k) == k \in DOMAIN IndexValue

KeyChoices == {"name", "sort", "2", "10"}

ValueChoices == {Scalar(7), Scalar(12), Array(<<>>), Array(<<3, 12>>), Undefined}

\* the params objects a caller may write: up to MaxParams properties with
\* distinct keys, in the order in which the caller adds them
Written ==
  UNION {{ins \in [1..n -> [key : KeyChoices, value : ValueChoices]] :
            \A i, j \in 1..n : i # j => ins[i].key # ins[j].key}
         : n \in 0..MaxParams}

\* Object.entries(params): the own properties in property order, which is
\* the index keys in ascending numeric order, then the other keys in the
\* order in which they were added
ObjectEntries(ins) ==
  SortSeq(SelectSeq(ins, LAMBDA e : IsIndexKey(e.key)),
          LAMBDA a, b : IndexValue[a.key] < IndexValue[b.key])
  \o SelectSeq(ins, LAMBDA e : ~IsIndexKey(e.key))

\* String(n) for a number n >= 0: its decimal numeral
RECURSIVE String(_)
String(n) ==
  IF n < 10 THEN <<Decimal[n + 1]>>
  ELSE String(n \div 10) \o <<Decimal[(n % 10) + 1]>>

\* (mutation) no `continue` for undefined: String(undefined) is appended
PairsOfEntryKeepsUndefined(e) ==
  CASE e.value.kind = "undefined" ->
         <<<<e.key, <<"u", "n", "d", "e", "f", "i", "n", "e", "d">>>>>>
    [] e.value.kind = "array" ->
         [i \in 1..Len(e.value.v) |-> <<e.key, String(e.value.v[i])>>]
    [] e.value.kind = "scalar" -> <<<<e.key, String(e.value.v[1])>>>>

\* the body of the loop for one entry: the pairs appended to url.searchParams
PairsOfEntry(e) ==
  CASE e.value.kind = "undefined" -> <<>>
    [] e.value.kind = "array" ->
         [i \in 1..Len(e.value.v) |-> <<e.key, String(e.value.v[i])>>]
    [] e.value.kind = "scalar" -> <<<<e.key, String(e.value.v[1])>>>>

RECURSIVE PairsOf(_)
PairsOf(entries) ==
  IF Len(entries) = 0 THEN <<>>
  ELSE PairsOfEntry(Head(entries)) \o PairsOf(Tail(entries))

\* the query pairs of the URL, in the order of url.searchParams
buildUrl(ps) == PairsOf(ObjectEntries(ps))

UrlInit ==
  /\ urlParams \in Written
  /\ url = NotBuilt
  /\ server = IdleServer
  /\ mode = "iter"
  /\ params = <<>>
  /\ PaginateStart
  /\ bk = NoCall
  /\ PollIdle
  /\ RunsIdle
  /\ HttpIdle
  /\ FirstCall

BuildUrl ==
  /\ ~url.built
  /\ url' = [built |-> TRUE, pairs |-> buildUrl(urlParams)]
  /\ UNCHANGED <<urlParams, pagVars, bk, pollVars, runVars, httpVars, callVars>>

UrlNext == BuildUrl

SpecUrl == UrlInit /\ [][UrlNext]_vars

----------------------------------------------------------------------------
(* Vocabulary of the properties of paginate and fetchAllPages *)

NPages == Len(server.len)

\* the item list the server holds for page p
PageList(p) ==
  IF p \in 1..NPages /\ server.has[p]
  THEN [i \in 1..server.len[p] |-> p * 10 + i]
  ELSE <<>>

\* the item lists of pages 1..n, one after the other
RECURSIVE ConcatPages(_)
ConcatPages(n) == IF n = 0 THEN <<>> ELSE ConcatPages(n - 1) \o PageList(n)

\* the item lists of the pages fetched successfully in history f, in fetch order
RECURSIVE ConcatOk(_)
ConcatOk(f) ==
  IF Len(f) = 0 THEN <<>>
  ELSE ConcatOk(SubSeq(f, 1, Len(f) - 1)) \o
       (IF Last(f).res = "ok" THEN PageList(Last(f).page) ELSE <<>>)

\* the number of rate-limited attempts in a row at the end of history f
RECURSIVE TrailingRateLimits(_)
TrailingRateLimits(f) ==
  IF Len(f) = 0 \/ Last(f).res # "ratelimit" THEN 0
  ELSE 1 + TrailingRateLimits(SubSeq(f, 1, Len(f) - 1))

CountRes(f, r) == Cardinality({i \in 1..Len(f) : f[i].res = r})

Occurrences(sq, x) == Cardinality({i \in 1..Len(sq) : sq[i] = x})

EndedByRateLimit == pc = "done" /\ thrown /\ error.kind = "ratelimit"

----------------------------------------------------------------------------
(* C1: against a server whose pages chain correctly and that never answers
   with a rate-limit error, fetchAllPages returns the concatenation of all
   pages' item lists in page order, after exactly one fetch per page, whatever
   total_entries the server reports. *)
C1_AllPagesOneFetchEach ==
  (/\ mode = "all"
   /\ returned.kind = "fulfilled"
   /\ Chained
   /\ CountRes(fetchLog, "ratelimit") = 0)
  => /\ returned.value = ConcatPages(NPages)
     /\ Len(fetchLog) = NPages
     /\ \A i \in 1..NPages : fetchLog[i].page = i /\ fetchLog[i].res = "ok"

C1_Witness ==
  /\ mode = "all" /\ returned.kind = "fulfilled" /\ Chained
  /\ CountRes(fetchLog, "ratelimit") = 0
  /\ NPages = 2 /\ server.len[1] = 2 /\ server.len[2] = 1
  /\ server.total_entries # 3
  /\ returned.value = <<11, 12, 21>>

(* C2: the items received so far are a prefix of the item lists of the pages
   fetched successfully so far, in fetch order; when the run has ended with a
   failure, every item of every page fetched successfully was received. *)
C2_ReceivedIsPrefixOfFetched ==
  /\ IsPrefix(received, ConcatOk(fetchLog))
  /\ (pc = "done" /\ thrown) => received = ConcatOk(fetchLog)

C2_Witness ==
  /\ pc = "done" /\ thrown
  /\ Len(received) >= 2
  /\ \E i \in 1..(Len(fetchLog) - 1) :
       fetchLog[i].res = "ratelimit" /\ fetchLog[i + 1].res = "ok"

(* C3: a page whose every fetch is rate-limited is attempted exactly 4 times
   (3 retries), all with the same page number; then the rate-limit error is
   propagated and the sequence ends, with no item of that page yielded. *)
C3_RetryBound ==
  LET n == Len(fetchLog) IN
  /\ TrailingRateLimits(fetchLog) <= maxRetries + 1
  /\ TrailingRateLimits(fetchLog) = maxRetries + 1 => EndedByRateLimit
  /\ EndedByRateLimit =>
       /\ TrailingRateLimits(fetchLog) = maxRetries + 1
       /\ \A i \in (n - maxRetries)..n : fetchLog[i].page = page
       /\ Len(received) = Len(ConcatOk(SubSeq(fetchLog, 1, n - maxRetries - 1)))
       /\ nWaits = CountRes(fetchLog, "ratelimit") - 1

C3_Witness ==
  /\ EndedByRateLimit
  /\ Len(fetchLog) = 5
  /\ fetchLog[1].res = "ok"
  /\ page = 2
  /\ Len(received) = 2

(* C4: the retry budget is per page: every fetch is issued with retryCount
   equal to the number of rate-limited attempts made in a row just before it,
   so a page fetched after one rate-limited attempt and a success is followed
   by a request with retryCount 0; a rate-limited page is re-requested once
   and a page's items are yielded once per successful fetch of it. *)
C4_BudgetPerPage ==
  /\ \A i \in 1..Len(fetchLog) :
       fetchLog[i].retryCount = TrailingRateLimits(SubSeq(fetchLog, 1, i - 1))
  /\ \A i \in 1..(Len(fetchLog) - 1) :
       (/\ fetchLog[i].res = "ratelimit"
        /\ (i = 1 \/ fetchLog[i - 1].res # "ratelimit")
        /\ fetchLog[i + 1].res = "ok")
       => /\ fetchLog[i + 1].page = fetchLog[i].page
          /\ (i + 2 <= Len(fetchLog) => fetchLog[i + 2].retryCount = 0)
  /\ \A p \in 1..NPages : \A k \in 1..Len(PageList(p)) :
       Occurrences(received, PageList(p)[k])
         <= Cardinality({i \in 1..Len(fetchLog) :
                           fetchLog[i].page = p /\ fetchLog[i].res = "ok"})

C4_Witness ==
  /\ Len(fetchLog) = 6
  /\ fetchLog[1].res = "ratelimit" /\ fetchLog[2].res = "ok"
  /\ fetchLog[1].page = 1 /\ fetchLog[2].page = 1
  /\ \A i \in 3..5 : fetchLog[i].res = "ratelimit" /\ fetchLog[i].page = 2
  /\ fetchLog[6].page = 2 /\ fetchLog[6].res = "ok"
  /\ received = <<11, 21>>

(* C5: a fetch that fails with an error that is not a rate-limit error ends
   the run at once with that error: it is the last fetch of the run, no
   backoff wait follows it, whatever retryCount is. *)
C5_OtherErrorsPropagate ==
  \A i \in 1..Len(fetchLog) :
    fetchLog[i].res = "error"
    => /\ i = Len(fetchLog)
       /\ pc = "done" /\ thrown /\ error.kind = "http"
       /\ backoffMs = 0
       /\ nWaits = CountRes(fetchLog, "ratelimit")

C5_Witness ==
  /\ Len(fetchLog) >= 3
  /\ Last(fetchLog).res = "error"
  /\ retryCount = 2
  /\ error = HetznerError(404)

(* C6: once the consumer has abandoned the sequence, no page fetch is issued. *)
C6_NoFetchAfterAbandon ==
  [][abandoned => fetchLog' = fetchLog /\ pc' # "fetching"]_vars

C6_Witness ==
  /\ abandoned
  /\ pc = "yielded"
  /\ idx = Len(response.items)
  /\ response.next_page # Null
  /\ Len(fetchLog) = 2

(* C7: fetchAllPages is all-or-nothing: it fulfils with every item of every
   page once the sequence has ended normally, or rejects with the error of
   paginate and exposes none of the items collected before the failure. *)
C7_AllOrNothing ==
  /\ returned.kind = "fulfilled" =>
       /\ pc = "done" /\ ~thrown
       /\ returned.value = ConcatOk(fetchLog)
       /\ Last(fetchLog).res = "ok"
       /\ server.next[Last(fetchLog).page] = Null
  /\ returned.kind = "rejected" =>
       /\ pc = "done" /\ thrown
       /\ returned.error = error
       /\ returned.value = <<>>
  /\ returned.kind = "pending" => returned.value = <<>>

C7_Witness ==
  /\ returned.kind = "rejected"
  /\ Len(items) = 3
  /\ returned.error.kind = "ratelimit"

----------------------------------------------------------------------------
(* C8: for a suggested delay of s seconds and an attempt number n >= 1,
   calculateBackoff(s, n) is max(s * 1000, 100 * 2^n) milliseconds; the
   documented values are backoff(0,1)=200, (0,2)=400, (0,3)=800,
   (5,1)=5000 and (10,1)=10000. *)
C8_BackoffFormula ==
  LET s == bk.retryAfter
      n == bk.retryCount
  IN (bk.called /\ n >= 1) =>
       /\ bk.result >= s * 1000
       /\ bk.result >= 100 * 2^n
       /\ bk.result \in {s * 1000, 100 * 2^n}
       /\ (s = 0 /\ n = 1 => bk.result = 200)
       /\ (s = 0 /\ n = 2 => bk.result = 400)
       /\ (s = 0 /\ n = 3 => bk.result = 800)
       /\ (s = 5 /\ n = 1 => bk.result = 5000)
       /\ (s = 10 /\ n = 1 => bk.result = 10000)

C8_Witness ==
  /\ bk.called /\ bk.retryAfter = 5 /\ bk.retryCount = 1 /\ bk.result = 5000

(* C9, as claimed: with a rate-limit hint of zero the waits before retry
   attempts 1, 2, 3 and 4 are 100, 200, 400 and 800 ms. *)
C9_WaitsStartAt100 ==
  (bk.called /\ bk.retryAfter = 0 /\ bk.retryCount \in 1..4)
  => bk.result = <<100, 200, 400, 800>>[bk.retryCount]

(* C9, amended: with a rate-limit hint of zero calculateBackoff gives 200,
   400, 800 and 1600 ms for attempts 1, 2, 3 and 4. *)
C9_WaitsStartAt200 ==
  (bk.called /\ bk.retryAfter = 0 /\ bk.retryCount \in 1..4)
  => bk.result = <<200, 400, 800, 1600>>[bk.retryCount]

C9_Witness ==
  /\ bk.called /\ bk.retryAfter = 0 /\ bk.retryCount = 4 /\ bk.result = 1600

----------------------------------------------------------------------------
(* C10: when the first k fetches answer running and fetch k+1 answers
   success, poll returns that record after exactly k+1 fetches and k waits of
   at least intervalMs each, one between every two consecutive fetches, so at
   least k * intervalMs after it began. *)
C10_PollUntilSuccess ==
  \A i \in 1..Len(pollLog) :
    pollLog[i].status = "success" =>
      LET k == i - 1 IN
      /\ Len(pollLog) = k + 1
      /\ pollPc = "returned"
      /\ pollResult.status = "success" /\ pollResult = action
      /\ \A j \in 1..k : pollLog[j].status = "running"
      /\ nSleeps = k
      /\ \A j \in 1..k : pollLog[j + 1].issued - pollLog[j].settled >= intervalMs
      /\ now - startTime >= k * intervalMs

C10_Witness ==
  /\ pollPc = "returned"
  /\ Len(pollLog) = 3
  /\ pollLog[3].status = "success"
  /\ intervalMs = 1
  /\ timeoutMs = 3
  /\ startTime = 7
  /\ now - startTime = 2

----------------------------------------------------------------------------
(* Vocabulary of the properties of poll *)

PollEnded == pollPc \in {"returned", "threw"}

OnlyRunningSeen == \A i \in 1..Len(pollLog) : pollLog[i].status = "running"

(* C11: a poll whose every fetch answers running never returns a record; it
   throws the timeout error only at a check where the time elapsed since it
   began is strictly greater than timeoutMs, never at a check at or before
   timeoutMs, and fetches nothing afterwards; when every wait lets time
   advance (intervalMs >= 1) the poll eventually ends. *)
C11_TimeoutOnlyAfterDeadline ==
  /\ [](/\ (pollError.kind = "timeout" =>
              /\ pollPc = "threw"
              /\ now - startTime > timeoutMs
              /\ Last(pollLog).status = "running"
              /\ pollResult = NoAction)
         /\ ((OnlyRunningSeen /\ PollEnded) => pollError.kind = "timeout")
         /\ \A j \in 1..Len(pollLog) :
              (/\ pollLog[j].status = "running"
               /\ pollLog[j].settled - startTime <= timeoutMs)
              => (j < Len(pollLog) \/ pollPc = "sleeping"))
  /\ [][pollError.kind = "timeout" => UNCHANGED pollVars]_vars
  /\ (intervalMs >= 1 /\ timeoutMs + 2 <= MaxPollFetches) => <>PollEnded

C11_Witness ==
  /\ pollError.kind = "timeout"
  /\ Len(pollLog) = 3
  /\ pollLog[2].settled - startTime = timeoutMs
  /\ now - startTime = timeoutMs + 1

(* C12: a fetched record with status error makes poll throw an ActionError
   whose message contains the record's error code and error message and which
   carries the whole record; it is the last fetch of the poll. *)
C12_ActionErrorCarriesRecord ==
  \A i \in 1..Len(pollLog) :
    pollLog[i].status = "error" =>
      /\ i = Len(pollLog)
      /\ pollPc = "threw"
      /\ pollError.kind = "action"
      /\ pollError.action = action
      /\ action.status = "error"
      /\ \E k \in 1..Len(pollError.message) :
           pollError.message[k] = action.error.code
      /\ \E k \in 1..Len(pollError.message) :
           pollError.message[k] = action.error.message
      /\ pollResult = NoAction

C12_Witness ==
  /\ pollPc = "threw"
  /\ pollError.kind = "action"
  /\ pollError.action.error.code = "server_error"
  /\ Len(pollLog) = 3

----------------------------------------------------------------------------
(* C13: every page request, retries included, carries every filter of the
   caller with its value unchanged, and the page number of the engine; a page
   key of the caller is overwritten by the engine's page number. *)
C13_FiltersReplayed ==
  \A i \in 1..Len(fetchLog) :
    LET q == fetchLog[i].query IN
    /\ KeysOf(q) = KeysOf(params) \cup {"page"}
    /\ Cardinality({j \in 1..Len(q) : q[j].key = "page"}) = 1
    /\ ValueOf(q, "page") = Scalar(fetchLog[i].page)
    /\ \A k \in KeysOf(params) \ {"page"} : ValueOf(q, k) = ValueOf(params, k)
    /\ (i = Len(fetchLog) /\ pc = "fetching") => fetchLog[i].page = page

C13_Witness ==
  /\ "page" \in KeysOf(params)
  /\ Len(fetchLog) = 3
  /\ fetchLog[1].res = "ratelimit"
  /\ fetchLog[2].query = fetchLog[1].query
  /\ fetchLog[3].query = <<Entry("page", Scalar(2)), Entry("per_page", Scalar(10))>>

(* C14: no step of a run changes the caller's filter mapping; in particular
   no page key is added to it. *)
C14_ParamsNotMutated ==
  [][params' = params]_vars

C14_Witness ==
  /\ params = <<Entry("per_page", Scalar(10))>>
  /\ pc = "done"
  /\ Len(fetchLog) = 3

(* C15: at most one page fetch of a run is outstanding: a fetch is issued
   only when every earlier fetch of the run has settled, one at a time, and a
   retry is issued only by the expiry of the backoff wait. *)
C15_OneFetchOutstanding ==
  [][/\ \A i \in 1..(Len(fetchLog') - 1) : fetchLog'[i].res # "pending"
     /\ (pc' = "fetching") <=> (Len(fetchLog') > 0 /\ Last(fetchLog').res = "pending")
     /\ Len(fetchLog') > Len(fetchLog) =>
          /\ Len(fetchLog') = Len(fetchLog) + 1
          /\ \/ Len(fetchLog) = 0
             \/ fetchLog'[Len(fetchLog)].res = "ok"
             \/ /\ fetchLog'[Len(fetchLog)].res = "ratelimit"
                /\ pc = "backoff"
                /\ backoffMs >= 100 * 2
                /\ fetchLog[Len(fetchLog)].res = "ratelimit"]_vars

C15_Witness ==
  /\ pc = "fetching"
  /\ Len(fetchLog) = 4
  /\ fetchLog[1].res = "ok"
  /\ fetchLog[3].res = "ratelimit"
  /\ fetchLog[4].res = "pending"

(* C16: two interleaved runs do not influence each other: every run is, after
   every step, in the state it reaches when it is fed the same responses on
   its own, and a step of one run changes nothing the other run sees. *)
C16_RunsIndependent ==
  /\ [](\A r \in RunIds : Frame(r) = alone[r])
  /\ [][\A r \in RunIds : \A o \in RunIds \ {r} :
          (Frame(r)' # Frame(r)) => (Frame(o)' = Frame(o))]_vars

C16_Witness ==
  /\ runs # <<>>
  /\ Frame(1).thrown /\ Frame(1).error.kind = "ratelimit"
  /\ Frame(1).retryCount = maxRetries /\ Frame(1).page = 2
  /\ Frame(2).pc = "backoff" /\ Frame(2).retryCount = 1 /\ Frame(2).page = 1

----------------------------------------------------------------------------
(* C17, as claimed: every 429 response is raised as a RateLimitError whose
   retryAfter is the number of seconds of the Retry-After header, or 0 when
   the header is absent; every other response that is not 2xx is raised as
   an error that is not a RateLimitError and carries the response's status. *)
C17_StatusDecidesTheError ==
  (raised.kind # "none" /\ ~Ok(rsp.status)) =>
    IF rsp.status = 429
    THEN /\ raised.kind = "RateLimitError"
         /\ ~rsp.retryAfter.present => raised.retryAfter = Num(0)
         /\ (rsp.retryAfter.present /\ Len(rsp.retryAfter.text) > 0
             /\ \A i \in 1..Len(rsp.retryAfter.text) : IsDigit(rsp.retryAfter.text[i]))
            => raised.retryAfter = Num(DecimalValue(rsp.retryAfter.text))
    ELSE /\ raised.kind = "HetznerError"
         /\ raised.statusCode = rsp.status

----------------------------------------------------------------------------
(* Vocabulary of the properties of buildUrl *)

\* the values of the pairs of key k, in the order of the URL
ValuesFor(pairs, k) ==
  LET ps == SelectSeq(pairs, LAMBDA pr : pr[1] = k)
  IN [i \in 1..Len(ps) |-> ps[i][2]]

\* the keys of the pairs, each once, in the order of their first pair
RECURSIVE FirstSeen(_)
FirstSeen(pairs) ==
  IF Len(pairs) = 0 THEN <<>>
  ELSE LET init == FirstSeen(SubSeq(pairs, 1, Len(pairs) - 1))
           k == Last(pairs)[1]
       IN IF \E i \in 1..Len(init) : init[i] = k THEN init ELSE Append(init, k)

\* the keys of the written object that have a scalar or a non-empty array
Emitting(ins) ==
  LET es == SelectSeq(ins, LAMBDA e : \/ e.value.kind = "scalar"
                                      \/ e.value.kind = "array" /\ Len(e.value.v) > 0)
  IN [i \in 1..Len(es) |-> es[i].key]

Pos(sq, x) == CHOOSE i \in 1..Len(sq) : sq[i] = x

\* one pair per scalar, one pair per array element in array order, none for
\* undefined, none for a key the object does not have, pairs of a key together
PairsMatchValues ==
  /\ \A i \in 1..Len(urlParams) :
       LET e == urlParams[i]
           vs == ValuesFor(url.pairs, e.key)
       IN CASE e.value.kind = "scalar" -> vs = <<String(e.value.v[1])>>
            [] e.value.kind = "array" ->
                 /\ Len(vs) = Len(e.value.v)
                 /\ \A j \in 1..Len(vs) : vs[j] = String(e.value.v[j])
            [] e.value.kind = "undefined" -> vs = <<>>
  /\ \A i \in 1..Len(url.pairs) : url.pairs[i][1] \in KeysOf(urlParams)
  /\ \A i, j \in 1..Len(url.pairs) :
       (i < j /\ url.pairs[i][1] = url.pairs[j][1])
       => \A m \in i..j : url.pairs[m][1] = url.pairs[i][1]

(* C18, as claimed: the URL has one pair per scalar, one per array element in
   array order and none for undefined, and its keys are in the order in which
   they were added to the mapping. *)
C18_KeysInInsertionOrder ==
  url.built => (PairsMatchValues /\ FirstSeen(url.pairs) = Emitting(urlParams))

(* C18, amended: the pairs are as claimed, and the keys are in property order:
   keys that are not array indices keep the order in which they were added,
   after every key that is an array index; those are in ascending numeric
   order. *)
C18_KeysInPropertyOrder ==
  url.built =>
    /\ PairsMatchValues
    /\ LET ks == FirstSeen(url.pairs) IN
       /\ {ks[i] : i \in 1..Len(ks)} = {Emitting(urlParams)[i] : i \in 1..Len(Emitting(urlParams))}
       /\ \A i, j \in 1..Len(ks) :
            i < j =>
              \/ IsIndexKey(ks[i]) /\ ~IsIndexKey(ks[j])
              \/ IsIndexKey(ks[i]) /\ IsIndexKey(ks[j])
                 /\ IndexValue[ks[i]] < IndexValue[ks[j]]
              \/ ~IsIndexKey(ks[i]) /\ ~IsIndexKey(ks[j])
                 /\ Pos(Emitting(urlParams), ks[i]) < Pos(Emitting(urlParams), ks[j])

C18_Witness ==
  /\ url.built
  /\ urlParams = <<Entry("name", Array(<<3, 12>>)), Entry("2", Scalar(7))>>
  /\ url.pairs = <<<<"2", <<"7">>>>, <<"name", <<"3">>>>, <<"name", <<"1", "2">>>>>>

----------------------------------------------------------------------------
(* C19, as claimed: in every run the number of pages fetched successfully
   never exceeds the last_page the server reports. *)
C19_BoundedByLastPage == CountRes(fetchLog, "ok") <= LastPage

(* C19, amended: against a server whose next_page chains page k to k+1 and
   is null on page last_page, a run fetches at most last_page pages
   successfully, each page at most once, issues at most 4 fetches per page,
   and fetches nothing more once page last_page has been fetched. *)
C19_BoundedByLastPageWhenChained ==
  Chained =>
    /\ CountRes(fetchLog, "ok") <= LastPage
    /\ \A i, j \in 1..Len(fetchLog) :
         (i < j /\ fetchLog[i].res = "ok") => fetchLog[j].page > fetchLog[i].page
    /\ \A i \in 1..Len(fetchLog) : fetchLog[i].page \in 1..LastPage
    /\ Len(fetchLog) <= (maxRetries + 1) * LastPage
    /\ CountRes(fetchLog, "ok") = LastPage =>
         /\ Last(fetchLog).res = "ok"
         /\ pc \in {"yielded", "done"}
         /\ (pc = "done" /\ ~abandoned) => (~hasMore /\ ~thrown)

C19_Witness ==
  /\ Chained
  /\ LastPage = 2
  /\ Len(fetchLog) = 4
  /\ fetchLog[2].res = "ratelimit"
  /\ CountRes(fetchLog, "ok") = 2
  /\ pc = "done" /\ ~thrown /\ ~abandoned

----------------------------------------------------------------------------
(* C20: a sequence that has ended stays ended: a further pull is answered
   with its end, issues no fetch and yields nothing.  A fresh call starts at
   page 1 with an empty history, and fetches every page again whatever the
   earlier calls have fetched. *)
C20_ForwardOnlyFreshCalls ==
  /\ [][/\ (pc = "done" /\ calls' = calls) =>
             /\ pc' = "done"
             /\ fetchLog' = fetchLog /\ received' = received
             /\ page' = page /\ thrown' = thrown /\ error' = error
        /\ endPulls' # endPulls /\ calls' = calls =>
             /\ pc = "done" /\ pc' = "done"
             /\ fetchLog' = fetchLog /\ received' = received
        /\ calls' # calls =>
             /\ pc' = "start" /\ page' = 1 /\ hasMore' /\ retryCount' = 0
             /\ fetchLog' = <<>> /\ received' = <<>> /\ items' = <<>>
             /\ server' = server]_vars
  /\ [](/\ (Len(fetchLog) > 0 => fetchLog[1].page = 1)
        /\ ((pc = "done" /\ ~thrown /\ ~abandoned) =>
              /\ OkPages(fetchLog) = 1..NPages
              /\ CountRes(fetchLog, "ok") = NPages
              /\ received = ConcatPages(NPages)))

C20_Witness ==
  /\ calls = 2
  /\ fetchedEarlier = {1, 2}
  /\ pc = "done" /\ ~thrown /\ ~abandoned
  /\ mode = "iter"
  /\ endPulls = 1
  /\ CountRes(fetchLog, "ok") = 2
  /\ Len(received) = 3

----------------------------------------------------------------------------
(* C21: a rate-limited attempt that is retried increments retryCount, then
   waits max(retryAfter * 1000, 100 * 2^retryCount) ms with the incremented
   retryCount and the retryAfter of that error, then requests the same page
   again; there is one wait per retried attempt, the failed attempt yields
   nothing, and exhaustion propagates the error without a wait. *)
C21_WaitThenRetrySamePage ==
  /\ [](/\ pc = "backoff" =>
             /\ error.kind = "ratelimit"
             /\ Last(fetchLog).res = "ratelimit"
             /\ retryCount = Last(fetchLog).retryCount + 1
             /\ retryCount \in 1..maxRetries
             /\ backoffMs \in {error.retryAfter * 1000, 100 * 2^retryCount}
             /\ backoffMs >= error.retryAfter * 1000
             /\ backoffMs >= 100 * 2^retryCount
        /\ nWaits = Cardinality({i \in 1..Len(fetchLog) :
                                   /\ fetchLog[i].res = "ratelimit"
                                   /\ fetchLog[i].retryCount < maxRetries})
        /\ EndedByRateLimit => (backoffMs = 0 /\ Last(fetchLog).retryCount = maxRetries))
  /\ [][/\ (pc = "fetching" /\ Last(fetchLog').res = "ratelimit") =>
             /\ received' = received /\ page' = page /\ hasMore' = hasMore
             /\ IF retryCount < maxRetries
                THEN /\ pc' = "backoff" /\ nWaits' = nWaits + 1
                     /\ retryCount' = retryCount + 1
                ELSE /\ pc' = "done" /\ thrown' /\ nWaits' = nWaits
                     /\ retryCount' = retryCount
        /\ pc = "backoff" =>
             /\ pc' = "fetching"
             /\ fetchLog' = Append(fetchLog, Last(fetchLog'))
             /\ Last(fetchLog').page = Last(fetchLog).page
             /\ Last(fetchLog').retryCount = retryCount
             /\ received' = received /\ nWaits' = nWaits]_vars

C21_Witness ==
  /\ pc = "backoff"
  /\ page = 2
  /\ retryCount = 2
  /\ error = RateLimitError(0)
  /\ backoffMs = 400
  /\ nWaits = 2
  /\ Len(received) > 0

----------------------------------------------------------------------------
(* C22: the first request of a run asks for page 1; a request after a
   rate-limited attempt asks for the same page again; a request after a
   successful one asks for the next_page of that response; no request
   follows a successful response whose next_page is null, nor a failure
   that is not retried. *)
C22_RequestedPages ==
  \A i \in 1..Len(fetchLog) :
    LET asked == RequestedPage(fetchLog[i].query) IN
    /\ asked = fetchLog[i].page
    /\ i = 1 => asked = 1
    /\ i > 1 =>
         LET prev == fetchLog[i - 1] IN
         /\ prev.res \in {"ratelimit", "ok"}
         /\ prev.res = "ratelimit" => asked = RequestedPage(prev.query)
         /\ prev.res = "ok" =>
              /\ ServerPage(RequestedPage(prev.query)).next_page # Null
              /\ asked = ServerPage(RequestedPage(prev.query)).next_page

C22_Witness ==
  /\ Len(fetchLog) = 4
  /\ ~Chained
  /\ [i \in 1..4 |-> fetchLog[i].page] = <<1, 2, 2, 1>>
  /\ [i \in 1..4 |-> fetchLog[i].res] = <<"ok", "ratelimit", "ok", "pending">>

----------------------------------------------------------------------------
(* Vocabulary of the properties of retryCount *)

\* the fetches of the run that have settled
SettledLog ==
  IF Len(fetchLog) > 0 /\ Last(fetchLog).res = "pending"
  THEN SubSeq(fetchLog, 1, Len(fetchLog) - 1) ELSE fetchLog

\* the history before its last settled fetch
BeforeLastSettled == SubSeq(SettledLog, 1, Len(SettledLog) - 1)

(* C23, as claimed: retryCount is within 0..3 and is at every moment the
   number of rate-limited attempts in a row since the last successful fetch. *)
C23_CountsRateLimitedAttempts ==
  /\ retryCount \in 0..maxRetries
  /\ retryCount = TrailingRateLimits(SettledLog)

(* C23, amended: retryCount is within 0..3 and counts the rate-limited
   attempts in a row that were retried: the attempt that exhausts the budget
   is not counted, and the count is set to 0 only once every item of the
   page fetched successfully has been yielded, before the next request. It
   changes by an increment of one at a retried rate-limited attempt, or to 0
   at the end of a page. *)
C23_CountsRetriedAttempts ==
  /\ [](/\ retryCount \in 0..maxRetries
        /\ pc \in {"fetching", "backoff"} => retryCount = TrailingRateLimits(SettledLog)
        /\ (pc = "yielded" \/ (pc = "done" /\ (thrown \/ abandoned))) =>
             retryCount = TrailingRateLimits(BeforeLastSettled)
        /\ (pc = "start" \/ (pc = "done" /\ ~thrown /\ ~abandoned)) => retryCount = 0
        /\ \A i \in 1..Len(fetchLog) :
             fetchLog[i].retryCount = TrailingRateLimits(SubSeq(fetchLog, 1, i - 1)))
  /\ [][retryCount' # retryCount =>
          \/ /\ retryCount' = retryCount + 1
             /\ pc = "fetching" /\ pc' = "backoff"
             /\ Last(fetchLog').res = "ratelimit"
          \/ /\ retryCount' = 0
             /\ pc \in {"fetching", "yielded"}
             /\ pc' \in {"fetching", "done"}
             /\ Last(SettledLog').res = "ok"
             /\ received' = received]_vars

C23_Witness ==
  /\ pc = "yielded"
  /\ retryCount = 2
  /\ Last(fetchLog).res = "ok"
  /\ TrailingRateLimits(BeforeLastSettled) = 2

----------------------------------------------------------------------------
(* C24: a successful response without an item list, or with an empty one,
   yields nothing and is no failure; the run goes on with the next_page of
   that response, or ends normally when it is null. *)
C24_EmptyPageAdvances ==
  /\ [](\A i \in 1..Len(fetchLog) :
          (fetchLog[i].res = "ok" /\ PageList(fetchLog[i].page) = <<>>) =>
            IF server.next[fetchLog[i].page] # Null
            THEN /\ i < Len(fetchLog)
                 /\ fetchLog[i + 1].page = server.next[fetchLog[i].page]
                 /\ fetchLog[i + 1].retryCount = 0
            ELSE /\ i = Len(fetchLog)
                 /\ pc = "done" /\ ~thrown /\ ~hasMore)
  /\ [][(pc = "fetching" /\ SettledLog' # SettledLog
         /\ Last(SettledLog').res = "ok"
         /\ PageList(Last(SettledLog').page) = <<>>) =>
          /\ received' = received
          /\ ~thrown' /\ error' = NoError
          /\ pc' \in {"fetching", "done"}]_vars

C24_Witness ==
  /\ NPages = 2
  /\ Len(fetchLog) = 2
  /\ ~server.has[1]
  /\ server.has[2] /\ server.len[2] = 0
  /\ fetchLog[1].res = "ok" /\ fetchLog[2].res = "ok"
  /\ fetchLog[2].page = 2
  /\ pc = "done" /\ ~thrown /\ ~abandoned
  /\ received = <<>>

----------------------------------------------------------------------------
(* C25: a fetch of the record that fails, the first one or a later one, with
   a rate-limit error or any other, makes poll reject at once with that
   error: it does not sleep, retries nothing and fetches nothing more. *)
C25_FetchFailureIsTerminal ==
  /\ [](/\ \A j \in 1..Len(pollLog) :
             pollLog[j].status = "rejected" =>
               /\ j = Len(pollLog)
               /\ pollPc = "threw"
               /\ pollError.kind = "fetch"
        /\ pollError.kind = "fetch" =>
             /\ Last(pollLog).status = "rejected"
             /\ pollError.cause \in FetchErrors
             /\ pollError = FetchError(pollError.cause)
             /\ pollResult = NoAction
             /\ nSleeps = Len(pollLog) - 1)
  /\ [][pollError.kind = "fetch" => UNCHANGED pollVars]_vars
  /\ [][(pollPc = "fetching" /\ Last(pollLog').status = "rejected") =>
          /\ nSleeps' = nSleeps
          /\ Len(pollLog') = Len(pollLog)
          /\ pollPc' = "threw"]_vars

C25_Witness ==
  /\ Len(pollLog) = 3
  /\ pollLog[3].status = "rejected"
  /\ pollError = FetchError(RateLimitError(0))
  /\ nSleeps = 2

----------------------------------------------------------------------------
(* C26: paginate fetches only while a pull of the consumer is unanswered:
   nothing is fetched before the first pull; a request is issued only in
   answer to a pull made when every item of the pages fetched so far had
   been received, or while that pull is still being served; while the
   consumer holds an item, the pages fetched successfully are those up to
   and including the page of that item. *)
C26_NoFetchAhead ==
  /\ [](/\ nPulls = 0 => fetchLog = <<>>
        /\ pc \in {"fetching", "backoff"} => nPulls = Len(received) + 1
        /\ received = SubSeq(ConcatOk(fetchLog), 1, Len(received))
        /\ pc = "yielded" =>
             /\ nPulls = Len(received)
             /\ Last(fetchLog).res = "ok"
             /\ idx \in 1..Len(PageList(Last(fetchLog).page))
             /\ received = ConcatOk(SubSeq(fetchLog, 1, Len(fetchLog) - 1))
                           \o SubSeq(PageList(Last(fetchLog).page), 1, idx))
  /\ [][Len(fetchLog') > Len(fetchLog) =>
          /\ nPulls' = Len(received) + 1
          /\ received' = received
          /\ received = ConcatOk(SettledLog)
          /\ pc \in {"start", "yielded"} => nPulls' = nPulls + 1
          /\ pc \in {"fetching", "backoff"} => nPulls' = nPulls]_vars

C26_Witness ==
  /\ pc = "yielded"
  /\ Len(fetchLog) = 2
  /\ server.len = <<2, 2>>
  /\ received = <<11, 12, 21>>
  /\ nPulls = 3

----------------------------------------------------------------------------
(* C27: in poll the status is looked at before the clock: a fetched record
   that is not running ends the poll by its status (returned, or thrown as
   ActionError when it is error) even when the elapsed time then exceeds
   timeoutMs; the timeout error is raised only by the step that fetched a
   record with status running. *)
C27_StatusBeforeTimeout ==
  /\ [][(pollPc = "fetching" /\ pollPc' # "fetching"
         /\ Last(pollLog').status \notin {"rejected", "running"}) =>
          IF action'.status = "error"
          THEN pollPc' = "threw" /\ pollError' = ActionError(action')
               /\ pollResult' = NoAction
          ELSE pollPc' = "returned" /\ pollResult' = action'
               /\ pollError' = NoPollError]_vars
  /\ [][(pollError'.kind = "timeout" /\ pollError.kind # "timeout") =>
          /\ pollPc = "fetching"
          /\ Last(pollLog').status = "running"
          /\ action'.status = "running"
          /\ now' - startTime > timeoutMs]_vars
  /\ [](pollPc = "returned" =>
          /\ pollResult = action
          /\ Last(pollLog).status = action.status
          /\ action.status \notin {"running", "error"})

C27_Witness ==
  /\ pollPc = "returned"
  /\ pollResult.status = "success"
  /\ Len(pollLog) = 2
  /\ pollLog[1].settled - startTime <= timeoutMs
  /\ now - startTime > timeoutMs

----------------------------------------------------------------------------
(* Vocabulary of the timing of poll *)

\* every fetch so far has settled at the instant it was issued
ZeroFetchTime == \A j \in 1..Len(pollLog) : pollLog[j].settled = pollLog[j].issued

\* every delay(intervalMs) so far has lasted exactly intervalMs
ExactTimers ==
  \A j \in 2..Len(pollLog) : pollLog[j].issued = pollLog[j - 1].settled + intervalMs

\* no fetch so far has answered anything but running
RunningSoFar ==
  \A j \in 1..Len(pollLog) : pollLog[j].status \in {"running", "pending"}

TimedOut == pollError.kind = "timeout"

(* C28, as claimed: with fetches that take no time and intervalMs > 0, a poll
   of an action that stays running times out after exactly
   floor(timeoutMs / intervalMs) + 2 fetches, at elapsed time
   (floor(timeoutMs / intervalMs) + 1) * intervalMs. *)
C28_FetchCountAtTimeout ==
  (intervalMs > 0 /\ ZeroFetchTime /\ RunningSoFar /\ TimedOut) =>
    /\ Len(pollLog) = (timeoutMs \div intervalMs) + 2
    /\ now - startTime = ((timeoutMs \div intervalMs) + 1) * intervalMs
    /\ now - startTime - timeoutMs \in 1..intervalMs

(* C28, amended: the same, when moreover every sleep lasts exactly
   intervalMs: fetch j is made at elapsed time (j - 1) * intervalMs, the
   timeout is raised by fetch floor(timeoutMs / intervalMs) + 2 at elapsed
   time (floor(timeoutMs / intervalMs) + 1) * intervalMs, at most intervalMs
   past timeoutMs, and nothing is slept or fetched after it.  A sleep that
   lasts longer brings the timeout with fewer fetches, never with more. *)
C28_FetchCountWithExactTimers ==
  /\ []((intervalMs > 0 /\ ZeroFetchTime /\ ExactTimers /\ RunningSoFar) =>
          /\ \A j \in 1..Len(pollLog) :
               pollLog[j].issued - startTime = (j - 1) * intervalMs
          /\ Len(pollLog) <= (timeoutMs \div intervalMs) + 2
          /\ nSleeps <= (timeoutMs \div intervalMs) + 1
          /\ TimedOut =>
               /\ Len(pollLog) = (timeoutMs \div intervalMs) + 2
               /\ nSleeps = (timeoutMs \div intervalMs) + 1
               /\ now - startTime = ((timeoutMs \div intervalMs) + 1) * intervalMs
               /\ now - startTime - timeoutMs \in 1..intervalMs
          /\ (pollPc = "sleeping" /\ nSleeps = (timeoutMs \div intervalMs) + 1) =>
               now - startTime + intervalMs > timeoutMs)
  /\ []((intervalMs > 0 /\ ZeroFetchTime /\ RunningSoFar) =>
          Len(pollLog) <= (timeoutMs \div intervalMs) + 2)
  /\ [][TimedOut => (nSleeps' = nSleeps /\ pollLog' = pollLog /\ pollPc' = "threw")]_vars

C28_Witness ==
  /\ TimedOut
  /\ intervalMs = 2 /\ timeoutMs = 3
  /\ ZeroFetchTime /\ ExactTimers /\ RunningSoFar
  /\ Len(pollLog) = 3
  /\ now - startTime = 4

----------------------------------------------------------------------------
(* C29: the first fetched record whose status is neither running nor error
   ends the poll: it is returned as it is, whatever that status is, after
   fetches that all answered running. *)
C29_ReturnsAnyOtherStatus ==
  /\ [](/\ pollPc = "returned" =>
             /\ pollResult = action
             /\ pollResult.status \notin {"running", "error"}
             /\ Last(pollLog).status = pollResult.status
             /\ \A j \in 1..(Len(pollLog) - 1) : pollLog[j].status = "running"
             /\ pollError = NoPollError
        /\ \A j \in 1..Len(pollLog) :
             pollLog[j].status \notin {"running", "error", "rejected", "pending"} =>
               /\ j = Len(pollLog)
               /\ pollPc = "returned"
               /\ pollResult.status = pollLog[j].status)
  /\ [][pollPc = "returned" => UNCHANGED pollVars]_vars

C29_Witness ==
  /\ pollPc = "returned"
  /\ pollResult.status = "cancelled"
  /\ Len(pollLog) = 2
  /\ nSleeps = 1

----------------------------------------------------------------------------
(* C30: a 429 response whose body is not JSON is raised as a HetznerError with
   code unknown and status 429 and not as a RateLimitError, so paginate
   propagates it at once, without a retry or a wait, whatever its Retry-After
   header says; paginate waits and retries only after a RateLimitError. *)
C30_UnparseableRateLimitNotRetried ==
  /\ []((raised # NotSettled /\ rsp.status = 429 /\ rsp.body = "text") =>
          /\ raised = ApiError("unknown", 429)
          /\ raised.kind # "RateLimitError"
          /\ pc = "done" /\ thrown
          /\ error = AsCaught(raised) /\ error.kind = "http" /\ error.statusCode = 429
          /\ backoffMs = 0
          /\ Last(fetchLog).res = "error")
  /\ [][(pc = "fetching" /\ rsp'.status = 429 /\ rsp'.body = "text"
         /\ fetchLog' # fetchLog /\ Len(fetchLog') = Len(fetchLog)
         /\ Last(fetchLog').res # "ok") =>
          /\ pc' = "done" /\ thrown'
          /\ nWaits' = nWaits /\ retryCount' = retryCount
          /\ received' = received]_vars
  /\ [][pc' = "backoff" =>
          /\ raised'.kind = "RateLimitError"
          /\ rsp'.status = 429 /\ rsp'.body = "error"
          /\ error'.kind = "ratelimit"]_vars
  /\ [](thrown => (pc = "done" /\ (error.kind = "ratelimit" => retryCount = maxRetries)))

C30_Witness ==
  /\ rsp = [status |-> 429, body |-> "text", retryAfter |-> Header(<<"1">>)]
  /\ raised = ApiError("unknown", 429)
  /\ pc = "done" /\ thrown
  /\ Len(fetchLog) = 1
  /\ retryCount = 0
  /\ nWaits = 0

====
